---- MODULE Spec2Model ----
\* Model of src/server.js: an express API over one lowdb JSON document.
\* Every handler re-reads the document, changes the shared in-memory copy
\* db.data, and (for a mutation) writes the whole document back.  The only
\* suspension points of a handler are `await db.read()` and `await db.write()`.
\*
\* Strings that the code lower-cases or searches (title, description, q) are
\* sequences of one-character strings; strings that are only compared
\* (category, subcategory, sort, image URLs) are TLA+ strings.  Prices are in
\* hundredths (799.0 is 79900) so that they stay integers in the same order.
EXTENDS Integers, Sequences, FiniteSets, TLC

VARIABLES
    file,      \* data/db.json: the persisted products sequence
    data,      \* db.data.products: the shared in-memory copy
    wq,        \* the file writer: <<in flight>> or <<in flight, queued>>
    pc,        \* per client: "idle", "reading", "writing", "done"
    req,       \* per client: the request being handled
    snap,      \* per client: the file content its db.read() loads
    wait,      \* per client: which write its `await db.write()` waits for
    resp,      \* per client: the response it sent
    now,       \* Date.now()
    writes,    \* how many times db.write() has been called
    maxGiven,  \* history: the largest id given by the creates completed so far
    created,   \* history: the ids given by completed creates and not deleted since
    lastDel    \* history: the id removed by the request completed last, if it was a 204 delete, else 0

vars == <<file, data, wq, pc, req, snap, wait, resp, now, writes, maxGiven, created, lastDel>>

\* ---------------------------------------------------------------- bounds
NumClients == 2
MaxId == 3
MaxClock == 2
MaxWrites == 4
MaxRaceWrites == 3

Clients == 1..NumClients

\* ---------------------------------------------------------------- values
Max(a, b) == IF a >= b THEN a ELSE b

EmptyObj == [f \in {} |-> 0]

Has(o, f) == f \in DOMAIN o

\* String.prototype.toLowerCase on the letters the model uses.
UpperCase == <<"A","B","C","D","E","F","G","H","I","J","K","L","M",
               "N","O","P","Q","R","S","T","U","V","W","X","Y","Z">>
LowerCase == <<"a","b","c","d","e","f","g","h","i","j","k","l","m",
               "n","o","p","q","r","s","t","u","v","w","x","y","z">>

toLowerChar(c) ==
    IF \E i \in 1..Len(UpperCase) : UpperCase[i] = c
    THEN LowerCase[CHOOSE i \in 1..Len(UpperCase) : UpperCase[i] = c]
    ELSE c

toLowerCase(s) == [i \in 1..Len(s) |-> toLowerChar(s[i])]

\* String.prototype.includes
includes(s, term) ==
    \E i \in 1..(Len(s) + 1) :
        /\ i + Len(term) - 1 <= Len(s)
        /\ \A k \in 1..Len(term) : s[i + k - 1] = term[k]

\* ---------------------------------------------------------------- seed
SeedProducts(t) == <<
    [id |-> 1,
     title |-> <<"i","P","h","o","n","e"," ","1","3"," ","P","r","o">>,
     description |-> <<"E","x","c","e","l","l","e","n","t"," ","c","o","n","d","i","t","i","o","n",
                       ","," ","2","5","6","G","B",","," ","G","r","a","p","h","i","t","e",".">>,
     price |-> 79900,
     category |-> "Electronics",
     subcategory |-> "Smartphones & Tablets",
     images |-> <<"https://images.unsplash.com/photo-1603899124210-36e0f7a5a8f0?w=1200">>,
     likes |-> 12,
     dislikes |-> 1,
     createdAt |-> t],
    [id |-> 2,
     title |-> <<"G","a","m","i","n","g"," ","C","h","a","i","r">>,
     description |-> <<"E","r","g","o","n","o","m","i","c"," ","c","h","a","i","r",","," ",
                       "a","d","j","u","s","t","a","b","l","e"," ","a","r","m","r","e","s","t","s",".">>,
     price |-> 14999,
     category |-> "Home & Garden",
     subcategory |-> "Furniture",
     images |-> <<"https://images.unsplash.com/photo-1582582494700-1b1a3e6a96d2?w=1200">>,
     likes |-> 3,
     dislikes |-> 0,
     createdAt |-> t] >>

\* ---------------------------------------------------------------- helpers
\* Number(x.id) || 0
numId(p) == IF Has(p, "id") THEN p.id ELSE 0

\* faulty variant: only the last product's id is looked at
reduceMax_lastOnly(items, m) ==
    IF items = <<>> THEN m ELSE Max(m, numId(items[Len(items)]))

RECURSIVE reduceMax(_, _)
reduceMax(items, m) ==
    IF items = <<>> THEN m
    ELSE reduceMax(Tail(items), Max(m, numId(Head(items))))

\* faulty variant: the next id taken from the number of products
nextId_byLength(items) == Len(items) + 1

nextId(items) == reduceMax(items, 0) + 1

\* Number(p.id) === id
idIs(p, id) == Has(p, "id") /\ p.id = id

\* Array.prototype.findIndex, 1-based; 0 when there is no match (-1 in the code)
findIndex(items, id) ==
    IF \E i \in 1..Len(items) : idIs(items[i], id)
    THEN CHOOSE i \in 1..Len(items) :
            /\ idIs(items[i], id)
            /\ \A j \in 1..(i - 1) : ~idIs(items[j], id)
    ELSE 0

\* faulty variant: the filter keeps the matching records
without_inverted(items, id) == SelectSeq(items, LAMBDA p : idIs(p, id))

\* db.data.products.filter(p => Number(p.id) !== id)
without(items, id) == SelectSeq(items, LAMBDA p : ~idIs(p, id))

\* ---------------------------------------------------------------- list
\* const { q, category, subcategory, sort = 'newest' } = req.query
sortOf(query) == IF Has(query, "sort") THEN query.sort ELSE "newest"

\* a.price || 0, a.createdAt || 0
priceOf(p) == IF Has(p, "price") THEN p.price ELSE 0
createdOf(p) == IF Has(p, "createdAt") THEN p.createdAt ELSE 0

\* p.title || '', p.description || ''
titleOf(p) == IF Has(p, "title") THEN p.title ELSE <<>>
descriptionOf(p) == IF Has(p, "description") THEN p.description ELSE <<>>

byCategory(items, query) ==
    IF Has(query, "category") /\ query.category # ""
    THEN SelectSeq(items, LAMBDA p : Has(p, "category") /\ p.category = query.category)
    ELSE items

bySubcategory(items, query) ==
    IF Has(query, "subcategory") /\ query.subcategory # ""
    THEN SelectSeq(items, LAMBDA p : Has(p, "subcategory") /\ p.subcategory = query.subcategory)
    ELSE items

\* faulty variant: the text filter compares without lower-casing the product's texts
byText_caseSensitive(items, query) ==
    IF Has(query, "q") /\ query.q # <<>>
    THEN LET term == toLowerCase(query.q)
         IN  SelectSeq(items, LAMBDA p :
                 \/ includes(titleOf(p), term)
                 \/ includes(descriptionOf(p), term))
    ELSE items

byText(items, query) ==
    IF Has(query, "q") /\ query.q # <<>>
    THEN LET term == toLowerCase(query.q)
         IN  SelectSeq(items, LAMBDA p :
                 \/ includes(toLowerCase(titleOf(p)), term)
                 \/ includes(toLowerCase(descriptionOf(p)), term))
    ELSE items

\* the comparator handed to items.sort
compare(sort, a, b) ==
    IF sort = "price-asc" THEN priceOf(a) - priceOf(b)
    ELSE IF sort = "price-desc" THEN priceOf(b) - priceOf(a)
    ELSE createdOf(b) - createdOf(a)

\* Array.prototype.sort is stable: x goes after every element that does not
\* compare greater than it.
RECURSIVE insertSorted(_, _, _)
insertSorted(sort, sorted, x) ==
    IF sorted = <<>> THEN <<x>>
    ELSE IF compare(sort, Head(sorted), x) > 0
         THEN <<x>> \o sorted
         ELSE <<Head(sorted)>> \o insertSorted(sort, Tail(sorted), x)

RECURSIVE sortItems(_, _, _)
sortItems(sort, items, acc) ==
    IF items = <<>> THEN acc
    ELSE sortItems(sort, Tail(items), insertSorted(sort, acc, Head(items)))

listItems(items, query) ==
    sortItems(sortOf(query), byText(bySubcategory(byCategory(items, query), query), query), <<>>)

\* ---------------------------------------------------------------- create
\* faulty variant: the body's own counters are taken over
newProduct_bodyCounters(items, body, t) ==
    [id |-> nextId(items),
     title |-> body.title,
     description |-> IF Has(body, "description") THEN body.description ELSE <<>>,
     price |-> IF Has(body, "price") THEN body.price ELSE 0,
     category |-> body.category,
     subcategory |-> IF Has(body, "subcategory") THEN body.subcategory ELSE "",
     images |-> IF Has(body, "images") THEN body.images ELSE <<>>,
     likes |-> IF Has(body, "likes") THEN body.likes ELSE 0,
     dislikes |-> IF Has(body, "dislikes") THEN body.dislikes ELSE 0,
     createdAt |-> t]

\* the record app.post builds from req.body
newProduct(items, body, t) ==
    [id |-> nextId(items),
     title |-> body.title,
     description |-> IF Has(body, "description") THEN body.description ELSE <<>>,
     price |-> IF Has(body, "price") THEN body.price ELSE 0,
     category |-> body.category,
     subcategory |-> IF Has(body, "subcategory") THEN body.subcategory ELSE "",
     images |-> IF Has(body, "images") THEN body.images ELSE <<>>,
     likes |-> 0,
     dislikes |-> 0,
     createdAt |-> t]

\* !title || !category
invalidBody(body) ==
    \/ ~Has(body, "title") \/ body.title = <<>>
    \/ ~Has(body, "category") \/ body.category = ""

\* ---------------------------------------------------------------- update
\* faulty variant: the patch is spread last, so its id wins
merge_patchLast(prev, patch) ==
    [f \in DOMAIN prev \cup DOMAIN patch |->
        IF f \in DOMAIN patch THEN patch[f] ELSE prev[f]]

\* faulty variant: the update rebuilds the counters as the create does
merge_resetCounters(prev, patch) ==
    [f \in DOMAIN prev \cup DOMAIN patch |->
        IF f = "id" THEN prev.id
        ELSE IF f \in {"likes", "dislikes"} THEN 0
        ELSE IF f \in DOMAIN patch THEN patch[f]
        ELSE prev[f]]

\* { ...prev, ...req.body, id: prev.id }
merge(prev, patch) ==
    [f \in DOMAIN prev \cup DOMAIN patch |->
        IF f = "id" THEN prev.id
        ELSE IF f \in DOMAIN patch THEN patch[f]
        ELSE prev[f]]

\* ---------------------------------------------------------------- inputs
Foo == <<"F","o","o">>

MinimalBody == [title |-> Foo, category |-> "Bar"]

FullBody ==
    [title |-> <<"L","a","m","p">>, description |-> <<"O","a","k">>, price |-> 2500,
     category |-> "Home & Garden", subcategory |-> "Lighting", images |-> <<"u1", "u2">>,
     id |-> 1, likes |-> 9]

NoTitleBody == [category |-> "Bar", price |-> 100]

EmptyCategoryBody == [title |-> Foo, category |-> ""]

PricePatch == [price |-> 50000]

IdPatch == [id |-> 9, title |-> <<"X">>]

LikesPatch == [likes |-> 7, dislikes |-> 2]

NoReq == [op |-> "NONE", id |-> 0, body |-> EmptyObj, query |-> EmptyObj]

NoResp == [status |-> 0, prod |-> EmptyObj, items |-> <<>>]

GetReq(query) == [op |-> "GET", id |-> 0, body |-> EmptyObj, query |-> query]
PostReq(body) == [op |-> "POST", id |-> 0, body |-> body, query |-> EmptyObj]
PutReq(id, patch) == [op |-> "PUT", id |-> id, body |-> patch, query |-> EmptyObj]
DeleteReq(id) == [op |-> "DELETE", id |-> id, body |-> EmptyObj, query |-> EmptyObj]

Ids == 1..MaxId

\* requests of the sequential runs
Requests ==
    {GetReq(q) : q \in {EmptyObj, [sort |-> "price-asc"]}}
    \cup {PostReq(b) : b \in {MinimalBody, FullBody, NoTitleBody, EmptyCategoryBody}}
    \cup {PutReq(i, b) : i \in Ids, b \in {PricePatch, IdPatch, LikesPatch}}
    \cup {DeleteReq(i) : i \in Ids}

\* requests of the overlapping runs
RaceRequests ==
    {GetReq(q) : q \in {[sort |-> "price-asc"], [category |-> "Bar", sort |-> "price-desc"]}}
    \cup {PostReq(b) : b \in {MinimalBody, NoTitleBody, EmptyCategoryBody}}
    \cup {PutReq(i, IdPatch) : i \in Ids}
    \cup {DeleteReq(i) : i \in Ids}

\* a store that was on disk before the process started: records written by
\* hand, one without price, description, likes and createdAt, one without id
LegacyStore == <<
    [id |-> 2, title |-> <<"O","l","d">>, category |-> "Bar"],
    [title |-> <<"B","a","r","e">>, category |-> "Electronics", price |-> 100, createdAt |-> 1] >>

\* a store with equal prices, equal createdAt and mixed case in its texts
PricedStore == <<
    [id |-> 1, title |-> <<"D","e","s","k">>, description |-> <<"o","a","k",","," ","C","H","A","I","R"," ","h","i","g","h">>,
     price |-> 15000, category |-> "Home & Garden", subcategory |-> "Furniture",
     images |-> <<>>, likes |-> 0, dislikes |-> 0, createdAt |-> 3],
    [id |-> 2, title |-> <<"C","h","a","i","r">>, description |-> <<>>,
     price |-> 5000, category |-> "Home & Garden", subcategory |-> "Furniture",
     images |-> <<>>, likes |-> 0, dislikes |-> 0, createdAt |-> 1],
    [id |-> 3, title |-> <<"P","h","o","n","e">>, description |-> <<"n","o"," ","c","h","a","r","g","e","r">>,
     price |-> 80000, category |-> "Electronics", subcategory |-> "Furniture",
     images |-> <<>>, likes |-> 0, dislikes |-> 0, createdAt |-> 2],
    [id |-> 4, title |-> <<"C","a","b","l","e">>, description |-> <<"f","o","r"," ","p","h","o","n","e">>,
     price |-> 5000, category |-> "Electronics", subcategory |-> "",
     images |-> <<>>, likes |-> 0, dislikes |-> 0, createdAt |-> 3] >>

ListStores == {<<>>, LegacyStore, PricedStore}

\* every combination of the four query parameters, each absent or given
ListQueries ==
    {a @@ b @@ c @@ d :
        a \in {EmptyObj, [q |-> <<>>], [q |-> <<"c","h","a","i","r">>], [q |-> <<"P","H","O","N","E">>],
               [q |-> <<"z","z">>]},
        b \in {EmptyObj, [category |-> ""], [category |-> "Electronics"], [category |-> "electronics"],
               [category |-> "Home & Garden"]},
        c \in {EmptyObj, [subcategory |-> "Furniture"]},
        d \in {EmptyObj, [sort |-> "newest"], [sort |-> "price-asc"], [sort |-> "price-desc"],
               [sort |-> "oldest"]}}

\* ---------------------------------------------------------------- bootstrap
\* lines 21-53: read the store, seed it when it has no products
bootstrap(stored, t) == IF stored = <<>> THEN SeedProducts(t) ELSE stored

Boot(stores) ==
    /\ now = 1
    /\ \E stored \in stores : file = bootstrap(stored, now)
    /\ data = file
    /\ wq = <<>>
    /\ pc = [s \in Clients |-> "idle"]
    /\ req = [s \in Clients |-> NoReq]
    /\ snap = [s \in Clients |-> <<>>]
    /\ wait = [s \in Clients |-> "none"]
    /\ resp = [s \in Clients |-> NoResp]
    /\ writes = 0
    /\ maxGiven = 0
    /\ created = {}
    /\ lastDel = 0

Init == Boot({<<>>, LegacyStore})

\* the process starts on any of the stores the list is tried on
InitList == Boot(ListStores)

\* ---------------------------------------------------------------- store
\* db.write(): the document is serialised at the call; the writer sends it to
\* the file at once when it is free, and otherwise keeps it as the one queued
\* document, replacing a document queued before.
dbWrite(s) ==
    /\ wq' = IF wq = <<>> THEN <<data'>> ELSE <<wq[1], data'>>
    /\ wait' = [wait EXCEPT ![s] = IF wq = <<>> THEN "direct" ELSE "queued"]
    /\ writes' = writes + 1

\* The write in flight reaches the file.  A handler whose document was the one
\* in flight (after being queued) resumes; a handler that found the writer free
\* resumes when nothing is queued behind its write; then each sends its response.
released(s) ==
    /\ pc[s] = "writing"
    /\ \/ wait[s] = "flight"
       \/ wait[s] = "direct" /\ Len(wq) = 1

WriteLands ==
    /\ wq # <<>>
    /\ file' = wq[1]
    /\ wq' = Tail(wq)
    /\ pc' = [s \in Clients |-> IF released(s) THEN "done" ELSE pc[s]]
    /\ wait' = [s \in Clients |->
                  IF released(s) THEN "none"
                  ELSE IF wait[s] = "queued" THEN "flight"
                  ELSE wait[s]]
    /\ UNCHANGED <<data, req, snap, resp, now, writes>>

\* ---------------------------------------------------------------- handlers
\* A request arrives and its handler runs to its first await: app.post answers
\* 400 before it reads anything, every other path calls db.read(), which loads
\* the file as it is.
Arrive(s, r, budget) ==
    /\ pc[s] = "idle"
    /\ req' = [req EXCEPT ![s] = r]
    /\ IF r.op = "POST" /\ invalidBody(r.body)
       THEN /\ pc' = [pc EXCEPT ![s] = "done"]
            /\ resp' = [resp EXCEPT ![s] = [NoResp EXCEPT !.status = 400]]
            /\ UNCHANGED snap
       ELSE /\ r.op = "POST" => nextId(file) <= MaxId
            /\ r.op # "GET" =>
                 writes + Cardinality({t \in Clients : pc[t] = "reading" /\ req[t].op # "GET"}) < budget
            /\ pc' = [pc EXCEPT ![s] = "reading"]
            /\ snap' = [snap EXCEPT ![s] = file]
            /\ UNCHANGED resp
    /\ UNCHANGED <<file, data, wq, wait, now, writes>>

\* faulty variant: the list sorts db.data.products itself when no filter made a copy
ListProducts_inPlace(s) ==
    /\ pc[s] = "reading" /\ req[s].op = "GET"
    /\ LET q == req[s].query
           filtered == byText(bySubcategory(byCategory(snap[s], q), q), q)
       IN  data' = IF filtered = snap[s] THEN listItems(snap[s], q) ELSE snap[s]
    /\ resp' = [resp EXCEPT ![s] = [NoResp EXCEPT !.status = 200,
                                                   !.items = listItems(snap[s], req[s].query)]]
    /\ pc' = [pc EXCEPT ![s] = "done"]
    /\ UNCHANGED <<file, wq, req, snap, wait, now, writes>>

\* app.get('/api/products') after db.read()
ListProducts(s) ==
    /\ pc[s] = "reading" /\ req[s].op = "GET"
    /\ data' = snap[s]
    /\ resp' = [resp EXCEPT ![s] = [NoResp EXCEPT !.status = 200,
                                                   !.items = listItems(snap[s], req[s].query)]]
    /\ pc' = [pc EXCEPT ![s] = "done"]
    /\ UNCHANGED <<file, wq, req, snap, wait, now, writes>>

\* app.post('/api/products') after db.read()
CreateProduct(s) ==
    /\ pc[s] = "reading" /\ req[s].op = "POST"
    /\ LET prod == newProduct(snap[s], req[s].body, now)
       IN  /\ data' = Append(snap[s], prod)
           /\ resp' = [resp EXCEPT ![s] = [NoResp EXCEPT !.status = 201, !.prod = prod]]
    /\ dbWrite(s)
    /\ pc' = [pc EXCEPT ![s] = "writing"]
    /\ UNCHANGED <<file, req, snap, now>>

\* app.put('/api/products/:id') after db.read()
UpdateProduct(s) ==
    /\ pc[s] = "reading" /\ req[s].op = "PUT"
    /\ LET idx == findIndex(snap[s], req[s].id)
       IN  IF idx = 0
           THEN /\ data' = snap[s]
                /\ resp' = [resp EXCEPT ![s] = [NoResp EXCEPT !.status = 404]]
                /\ pc' = [pc EXCEPT ![s] = "done"]
                /\ UNCHANGED <<wq, wait, writes>>
           ELSE LET next == merge(snap[s][idx], req[s].body)
                IN  /\ data' = [snap[s] EXCEPT ![idx] = next]
                    /\ resp' = [resp EXCEPT ![s] = [NoResp EXCEPT !.status = 200, !.prod = next]]
                    /\ dbWrite(s)
                    /\ pc' = [pc EXCEPT ![s] = "writing"]
    /\ UNCHANGED <<file, req, snap, now>>

\* faulty variant: the delete writes before it looks at the length
DeleteProduct_writeFirst(s) ==
    /\ pc[s] = "reading" /\ req[s].op = "DELETE"
    /\ data' = without(snap[s], req[s].id)
    /\ dbWrite(s)
    /\ pc' = [pc EXCEPT ![s] = "writing"]
    /\ resp' = [resp EXCEPT ![s] = [NoResp EXCEPT !.status =
                    IF Len(data') = Len(snap[s]) THEN 404 ELSE 204]]
    /\ UNCHANGED <<file, req, snap, now>>

\* app.delete('/api/products/:id') after db.read()
DeleteProduct(s) ==
    /\ pc[s] = "reading" /\ req[s].op = "DELETE"
    /\ data' = without(snap[s], req[s].id)
    /\ IF Len(data') = Len(snap[s])
       THEN /\ resp' = [resp EXCEPT ![s] = [NoResp EXCEPT !.status = 404]]
            /\ pc' = [pc EXCEPT ![s] = "done"]
            /\ UNCHANGED <<wq, wait, writes>>
       ELSE /\ resp' = [resp EXCEPT ![s] = [NoResp EXCEPT !.status = 204]]
            /\ dbWrite(s)
            /\ pc' = [pc EXCEPT ![s] = "writing"]
    /\ UNCHANGED <<file, req, snap, now>>

\* the client has its response; the connection is free for the next request
Finish(s) ==
    /\ pc[s] = "done"
    /\ pc' = [pc EXCEPT ![s] = "idle"]
    /\ req' = [req EXCEPT ![s] = NoReq]
    /\ snap' = [snap EXCEPT ![s] = <<>>]
    /\ resp' = [resp EXCEPT ![s] = NoResp]
    /\ UNCHANGED <<file, data, wq, wait, now, writes>>

\* time passes
Tick ==
    /\ now < MaxClock
    /\ now' = now + 1
    /\ UNCHANGED <<file, data, wq, pc, req, snap, wait, resp, writes>>

\* ---------------------------------------------------------------- history
hist == <<maxGiven, created, lastDel>>

\* what the request that client s has just completed adds to the history
Record(s) ==
    LET isCreate == req[s].op = "POST" /\ resp[s].status = 201
        isDelete == req[s].op = "DELETE" /\ resp[s].status = 204
    IN  /\ maxGiven' = IF isCreate THEN Max(maxGiven, resp[s].prod.id) ELSE maxGiven
        /\ created' = IF isCreate THEN created \cup {resp[s].prod.id}
                      ELSE IF isDelete THEN created \ {req[s].id}
                      ELSE created
        /\ lastDel' = IF isDelete THEN req[s].id ELSE 0

\* ---------------------------------------------------------------- specifications
\* requests overlap freely
Next ==
    \/ \E s \in Clients, r \in RaceRequests : Arrive(s, r, MaxRaceWrites) /\ UNCHANGED hist
    \/ \E s \in Clients : ListProducts(s) /\ UNCHANGED hist
    \/ \E s \in Clients : CreateProduct(s) /\ UNCHANGED hist
    \/ \E s \in Clients : UpdateProduct(s) /\ UNCHANGED hist
    \/ \E s \in Clients : DeleteProduct(s) /\ UNCHANGED hist
    \/ \E s \in Clients : Finish(s) /\ UNCHANGED hist
    \/ WriteLands /\ UNCHANGED hist
    \/ Tick /\ UNCHANGED hist

Spec == Init /\ [][Next]_vars

\* requests one after another, all from client 1: a request arrives only when
\* no other is in progress
Quiet == \A t \in Clients : pc[t] = "idle"

NextSeq ==
    \/ \E r \in Requests : Quiet /\ Arrive(1, r, MaxWrites) /\ UNCHANGED hist
    \/ \E s \in Clients : ListProducts(s) /\ UNCHANGED hist
    \/ \E s \in Clients : CreateProduct(s) /\ UNCHANGED hist
    \/ \E s \in Clients : UpdateProduct(s) /\ UNCHANGED hist
    \/ \E s \in Clients : DeleteProduct(s) /\ UNCHANGED hist
    \/ \E s \in Clients : Finish(s) /\ Record(s)
    \/ WriteLands /\ UNCHANGED hist
    \/ Tick /\ UNCHANGED hist

SeqSpec == Init /\ [][NextSeq]_vars

\* list requests only, one at a time, over every store and every query
NextList ==
    \/ \E r \in {GetReq(q) : q \in ListQueries} : Quiet /\ Arrive(1, r, 0) /\ UNCHANGED hist
    \/ \E s \in Clients : ListProducts(s) /\ UNCHANGED hist
    \/ \E s \in Clients : Finish(s) /\ UNCHANGED hist

ListSpec == InitList /\ [][NextList]_vars

\* ---------------------------------------------------------------- claims
ids(items) == {items[i].id : i \in {k \in 1..Len(items) : Has(items[k], "id")}}

done(s, op, status) == pc[s] = "done" /\ req[s].op = op /\ resp[s].status = status

\* C1: in every reachable state, overlapping requests included, no two
\* products of the persisted collection have the same id.
C1_UniqueIds ==
    \A i, j \in 1..Len(file) :
        (i # j /\ Has(file[i], "id") /\ Has(file[j], "id")) => file[i].id # file[j].id

\* a create and an update that read the same store have both been answered
C1_Witness ==
    \E s, t \in Clients :
        /\ done(s, "POST", 201) /\ done(t, "PUT", 200)
        /\ snap[s] = snap[t]
        /\ wq = <<>>
        /\ Len(file) >= 2

\* C2: a step that answers 400 or 404 issues no write and leaves the file and
\* every product as they were; neither does the arrival of any request.
C2_ErrorsChangeNothing ==
    [][\A s \in Clients :
          /\ (pc[s] = "idle" /\ pc'[s] # "idle") =>
                (file' = file /\ wq' = wq /\ writes' = writes /\ data' = data)
          /\ (pc[s] # "done" /\ pc'[s] = "done" /\ resp'[s].status \in {400, 404}) =>
                /\ file' = file /\ wq' = wq /\ writes' = writes
                /\ data' = IF resp'[s].status = 400 THEN data ELSE snap[s]]_vars

\* a delete answered 404 while another client's write was in flight
C2_Witness ==
    \E s, t \in Clients :
        /\ done(s, "DELETE", 404)
        /\ pc[t] = "writing"
        /\ wq # <<>>

\* C7: the step that answers a list request issues no write and leaves the
\* file as it was; the in-memory collection is the document as read, in its
\* stored order.
C7_ListChangesNothing ==
    [][\A s \in Clients :
          (pc[s] = "reading" /\ req[s].op = "GET" /\ pc'[s] # "reading") =>
              /\ file' = file /\ wq' = wq /\ writes' = writes
              /\ data' = snap[s]
              /\ pc'[s] = "done" /\ resp'[s].status = 200]_vars

\* a list was answered in an order that is not the stored one, and the file
\* still holds what the request read
C7_Witness ==
    \E s \in Clients :
        /\ done(s, "GET", 200)
        /\ Len(resp[s].items) = Len(snap[s])
        /\ resp[s].items # snap[s]
        /\ file = snap[s]

countId(items, id) == Cardinality({i \in 1..Len(items) : idIs(items[i], id)})

\* C10: two creates answered 201 with the same id only when neither read the
\* other's record, and the file then holds at most one record under that id.
C10_SameIdOnlyByOverlap ==
    \A s, t \in Clients :
        (s # t /\ done(s, "POST", 201) /\ done(t, "POST", 201)
             /\ resp[s].prod.id = resp[t].prod.id) =>
            /\ resp[s].prod.id \notin ids(snap[s])
            /\ resp[t].prod.id \notin ids(snap[t])
            /\ countId(file, resp[s].prod.id) <= 1

\* the lost update: two creates read the same store, both answered 201 with
\* the same id, every write has landed, and the file has grown by one record
C10_LostUpdate ==
    \E s, t \in Clients :
        /\ s # t /\ done(s, "POST", 201) /\ done(t, "POST", 201)
        /\ snap[s] = snap[t]
        /\ resp[s].prod.id = resp[t].prod.id
        /\ wq = <<>>
        /\ Len(file) = Len(snap[s]) + 1
        /\ countId(file, resp[s].prod.id) = 1

\* ---------------------------------------------------------------- claims, one request at a time
\* the one position of id in items
posOf(items, id) == CHOOSE i \in 1..Len(items) : idIs(items[i], id)

\* C3: a successful update keeps the product's id even against a patch that
\* names another, gives every other field of the patch the patch's value,
\* keeps every field the patch does not name, and leaves the other products
\* and the size of the collection alone.
C3_UpdateMerges ==
    \A s \in Clients :
        done(s, "PUT", 200) =>
            /\ countId(snap[s], req[s].id) = 1
            /\ Len(file) = Len(snap[s])
            /\ LET i == posOf(snap[s], req[s].id)
                   old == snap[s][i]
                   new == file[i]
                   patch == req[s].body
               IN  /\ new.id = req[s].id /\ new.id = old.id
                   /\ DOMAIN new = DOMAIN old \cup DOMAIN patch
                   /\ \A f \in DOMAIN patch \ {"id"} : new[f] = patch[f]
                   /\ \A f \in DOMAIN old \ DOMAIN patch : new[f] = old[f]
                   /\ \A j \in 1..Len(file) : j # i => file[j] = snap[s][j]
                   /\ resp[s].prod = new

\* an update whose patch names another id and a new title has been answered
C3_Witness ==
    \E s \in Clients :
        /\ done(s, "PUT", 200)
        /\ req[s].body = IdPatch
        /\ req[s].body.id # req[s].id
        /\ Len(file) >= 2

\* items with the element at position i left out
dropAt(items, i) == [k \in 1..(Len(items) - 1) |-> IF k < i THEN items[k] ELSE items[k + 1]]

\* C4: a delete of a present id answers 204 and removes the one record with
\* that id, every other record staying as it was; the same delete sent again
\* as the very next request answers 404.
C4_DeleteOnce ==
    \A s \in Clients :
        /\ done(s, "DELETE", 204) =>
              /\ countId(snap[s], req[s].id) = 1
              /\ file = dropAt(snap[s], posOf(snap[s], req[s].id))
        /\ (pc[s] = "done" /\ req[s].op = "DELETE") =>
              /\ resp[s].status = 204 <=> req[s].id \in ids(snap[s])
              /\ resp[s].status = 404 <=> req[s].id \notin ids(snap[s])
              /\ req[s].id = lastDel => resp[s].status = 404

\* the second delete of the id that the request before it removed is answered
C4_Witness ==
    \E s \in Clients :
        /\ pc[s] = "done" /\ req[s].op = "DELETE"
        /\ lastDel # 0 /\ req[s].id = lastDel
        /\ file = snap[s]

\* the largest id of items, a missing id counting as 0; 0 for no items
largest(items) ==
    CHOOSE m \in {0} \cup ids(items) : \A n \in {0} \cup ids(items) : n <= m

\* C5: a create with title and category appends one record and leaves the
\* others alone; its id is 1 + the largest id present (0 when none), so it is
\* no id present; every optional field not supplied has its default.
C5_CreateAppends ==
    \A s \in Clients :
        done(s, "POST", 201) =>
            LET p == resp[s].prod
                b == req[s].body
            IN  /\ file = Append(snap[s], p)
                /\ p.id = 1 + largest(snap[s])
                /\ p.id \notin ids(snap[s])
                /\ ~Has(b, "description") => p.description = <<>>
                /\ ~Has(b, "subcategory") => p.subcategory = ""
                /\ ~Has(b, "price") => p.price = 0
                /\ ~Has(b, "images") => p.images = <<>>
                /\ p.likes = 0 /\ p.dislikes = 0
                /\ p.title = b.title /\ p.category = b.category

\* a create with only title and category, on a store that has a record
\* without id, has been answered
C5_Witness ==
    \E s \in Clients :
        /\ done(s, "POST", 201)
        /\ req[s].body = MinimalBody
        /\ \E i \in 1..Len(snap[s]) : ~Has(snap[s][i], "id")
        /\ Len(file) = Len(snap[s]) + 1

\* C8 as stated: the id a create gives is at least every id given by an
\* earlier create.
C8_NonDecreasing ==
    \A s \in Clients : done(s, "POST", 201) => resp[s].prod.id >= maxGiven

\* C8 amended: the id a create gives is greater than the id of every product
\* created earlier that is still in the collection.
C8_AboveSurvivors ==
    \A s \in Clients :
        done(s, "POST", 201) => \A g \in created : resp[s].prod.id > g

\* a create has been answered while an earlier create's product is still there
C8_Witness ==
    \E s \in Clients :
        /\ done(s, "POST", 201)
        /\ created # {}
        /\ created \subseteq ids(snap[s])

\* the value of counter f of product p, -1 when p has no such field
counter(p, f) == IF Has(p, f) THEN p[f] ELSE -1

\* this step stores an update whose patch names counter f of the product with this id
patches(id, f) ==
    /\ file' # file
    /\ \E s \in Clients :
          /\ pc[s] = "writing" /\ req[s].op = "PUT"
          /\ req[s].id = id /\ Has(req[s].body, f)

\* C9 as stated: no request changes the likes or dislikes of a product that
\* stays in the collection.
C9_CountersFrozen ==
    [][\A i \in 1..Len(file), j \in 1..Len(file') :
          (Has(file[i], "id") /\ idIs(file'[j], file[i].id)) =>
              \A f \in {"likes", "dislikes"} : counter(file'[j], f) = counter(file[i], f)]_vars

\* C9 amended: likes and dislikes of a product that stays in the collection
\* change only by an update whose patch names them, and then to the patch's value.
C9_CountersChangeOnlyByPatch ==
    [][\A i \in 1..Len(file), j \in 1..Len(file') :
          (Has(file[i], "id") /\ idIs(file'[j], file[i].id)) =>
              \A f \in {"likes", "dislikes"} :
                  IF patches(file[i].id, f)
                  THEN \E s \in Clients :
                          /\ pc[s] = "writing" /\ req[s].op = "PUT" /\ req[s].id = file[i].id
                          /\ counter(file'[j], f) = req[s].body[f]
                  ELSE counter(file'[j], f) = counter(file[i], f)]_vars

\* an update that names likes and dislikes has been answered and stored
C9_Witness ==
    \E s \in Clients :
        /\ done(s, "PUT", 200)
        /\ req[s].body = LikesPatch
        /\ \E i \in 1..Len(file) :
              /\ idIs(file[i], req[s].id)
              /\ file[i].likes = 7 /\ file[i].dislikes = 2
              /\ counter(snap[s][i], "likes") # 7

\* ---------------------------------------------------------------- claims, the list
count(items, v) == Cardinality({i \in 1..Len(items) : items[i] = v})

given(query, f, empty) == Has(query, f) /\ query[f] # empty

\* term occurs in text when case is ignored
occursIn(term, text) ==
    \E off \in 0..Len(text) :
        /\ off + Len(term) <= Len(text)
        /\ \A k \in 1..Len(term) : toLowerChar(text[off + k]) = toLowerChar(term[k])

matches(p, query) ==
    /\ given(query, "category", "") => (Has(p, "category") /\ p.category = query.category)
    /\ given(query, "subcategory", "") => (Has(p, "subcategory") /\ p.subcategory = query.subcategory)
    /\ given(query, "q", <<>>) =>
          \/ Has(p, "title") /\ occursIn(query.q, p.title)
          \/ Has(p, "description") /\ occursIn(query.q, p.description)

inOrder(query, a, b) ==
    LET pa == IF Has(a, "price") THEN a.price ELSE 0
        pb == IF Has(b, "price") THEN b.price ELSE 0
        ca == IF Has(a, "createdAt") THEN a.createdAt ELSE 0
        cb == IF Has(b, "createdAt") THEN b.createdAt ELSE 0
    IN  IF Has(query, "sort") /\ query.sort = "price-asc" THEN pa <= pb
        ELSE IF Has(query, "sort") /\ query.sort = "price-desc" THEN pa >= pb
        ELSE ca >= cb

\* C6: the list answers exactly the products that pass every filter given,
\* each as often as the store holds it, by ascending price for price-asc,
\* descending price for price-desc and descending createdAt otherwise, a
\* missing price or createdAt counting as 0.
C6_ListFiltersAndSorts ==
    \A s \in Clients :
        done(s, "GET", 200) =>
            LET items == resp[s].items
                query == req[s].query
            IN  /\ \A i \in 1..Len(items) :
                      matches(items[i], query) /\ count(items, items[i]) = count(snap[s], items[i])
                /\ \A i \in 1..Len(snap[s]) :
                      matches(snap[s][i], query) => count(items, snap[s][i]) >= 1
                /\ \A i, j \in 1..Len(items) : i < j => inOrder(query, items[i], items[j])

\* a list with a text and a category filter answered two or more products,
\* fewer than the store holds, in another order than the stored one
C6_Witness ==
    \E s \in Clients :
        /\ done(s, "GET", 200)
        /\ given(req[s].query, "q", <<>>) /\ given(req[s].query, "category", "")
        /\ Len(resp[s].items) >= 2 /\ Len(resp[s].items) < Len(snap[s])
        /\ resp[s].items # SelectSeq(snap[s], LAMBDA p : matches(p, req[s].query))

====
